---- MODULE Spec2Model ----
(***************************************************************************)
(* zbackup: property driven ZFS backup (src/src/zfs_tools/zbackup.py).     *)
(*                                                                         *)
(* Python strings are modelled as sequences of one-character strings, so   *)
(* that int(), split(), startswith(), endswith(), slicing, sorting and     *)
(* string formatting are computed, not assumed.  Python's None is the      *)
(* empty tuple and a present optional value x is the one-element tuple     *)
(* <<x>>.  A dict is the sequence of its items in insertion order.         *)
(***************************************************************************)
EXTENDS Integers, Sequences, FiniteSets, TLC

\* ------------------------------------------------------------------------
\* Bounds of the model
\* ------------------------------------------------------------------------

\* Most zpools that "zpool list" reports in one run.
MaxPools == 2

\* Most lines that "zfs get" prints in one run, over all its zpools.
MaxLines == 2

\* ------------------------------------------------------------------------
\* Python values
\* ------------------------------------------------------------------------

None == <<>>

Some(x) == <<x>>

Range(s) == {s[i] : i \in 1..Len(s)}

\* ------------------------------------------------------------------------
\* Python str operations
\* ------------------------------------------------------------------------

\* The characters str.strip() and str.split() treat as whitespace.
Whitespace == {" ", "\t", "\n"}

Digits == <<"0", "1", "2", "3", "4", "5", "6", "7", "8", "9">>

IsDigit(c) == c \in Range(Digits)

DigitVal(c) == (CHOOSE i \in 1..10 : Digits[i] = c) - 1

\* s.startswith(p)
StartsWith(s, p) == Len(s) >= Len(p) /\ SubSeq(s, 1, Len(p)) = p

\* s.endswith(p)
EndsWith(s, p) == Len(s) >= Len(p) /\ SubSeq(s, Len(s) - Len(p) + 1, Len(s)) = p

\* s[n:]
DropFirst(s, n) == SubSeq(s, n + 1, Len(s))

\* s[:-n]
DropLast(s, n) == SubSeq(s, 1, Len(s) - n)

RECURSIVE LStrip(_)
LStrip(s) == IF s # <<>> /\ Head(s) \in Whitespace THEN LStrip(Tail(s)) ELSE s

RECURSIVE RStripChars(_, _)
\* s.rstrip(chars)
RStripChars(s, chars) ==
    IF s # <<>> /\ s[Len(s)] \in chars
    THEN RStripChars(DropLast(s, 1), chars)
    ELSE s

\* s.strip()
Strip(s) == RStripChars(LStrip(s), Whitespace)

RECURSIVE SplitAcc(_, _, _)
SplitAcc(s, sep, cur) ==
    IF s = <<>> THEN <<cur>>
    ELSE IF Head(s) = sep THEN <<cur>> \o SplitAcc(Tail(s), sep, <<>>)
    ELSE SplitAcc(Tail(s), sep, Append(cur, Head(s)))

\* s.split(sep), sep a single character: never empty, keeps empty fields.
Split(s, sep) == SplitAcc(s, sep, <<>>)

RECURSIVE SplitWsAcc(_, _)
SplitWsAcc(s, cur) ==
    IF s = <<>> THEN (IF cur = <<>> THEN <<>> ELSE <<cur>>)
    ELSE IF Head(s) \in Whitespace
         THEN (IF cur = <<>> THEN <<>> ELSE <<cur>>) \o SplitWsAcc(Tail(s), <<>>)
    ELSE SplitWsAcc(Tail(s), Append(cur, Head(s)))

\* s.split(): runs of whitespace separate, no empty fields.
SplitWs(s) == SplitWsAcc(s, <<>>)

RECURSIVE Join(_, _)
\* sep.join(parts)
Join(parts, sep) ==
    IF parts = <<>> THEN <<>>
    ELSE IF Len(parts) = 1 THEN parts[1]
    ELSE parts[1] \o sep \o Join(Tail(parts), sep)

RECURSIVE DigitsValue(_, _)
DigitsValue(s, acc) ==
    IF s = <<>> THEN acc
    ELSE IF Head(s) = "_" THEN DigitsValue(Tail(s), acc)
    ELSE DigitsValue(Tail(s), 10 * acc + DigitVal(Head(s)))

\* The digit part of an integer literal: digits, single underscores between them.
IsDigitBody(s) ==
    /\ s # <<>>
    /\ IsDigit(s[1])
    /\ IsDigit(s[Len(s)])
    /\ \A i \in 1..Len(s) : IsDigit(s[i]) \/ s[i] = "_"
    /\ \A i \in 1..(Len(s) - 1) : ~(s[i] = "_" /\ s[i + 1] = "_")

\* int(s): Some(n), or None where Python raises ValueError.
ParseInt(s) ==
    LET t == Strip(s)
        signed == t # <<>> /\ t[1] \in {"+", "-"}
        body == IF signed THEN Tail(t) ELSE t
    IN  IF ~IsDigitBody(body) THEN None
        ELSE IF signed /\ t[1] = "-" THEN Some(0 - DigitsValue(body, 0))
        ELSE Some(DigitsValue(body, 0))

RECURSIVE NatToStr(_)
NatToStr(n) ==
    IF n < 10 THEN <<Digits[n + 1]>>
    ELSE Append(NatToStr(n \div 10), Digits[(n % 10) + 1])

\* str(n) of an int
IntToStr(n) == IF n < 0 THEN <<"-">> \o NatToStr(0 - n) ELSE NatToStr(n)

\* ------------------------------------------------------------------------
\* Code points: AsciiOrder lists the characters the model uses by ascending
\* code point, so Ord orders characters as Python's str comparison does.
\* ------------------------------------------------------------------------

AsciiOrder ==
    <<"\t", "\n", " ", "+", ",", "-", ".", "/", "0", "1", "2", "3", "4", "5", "6", "7", "8",
      "9", ":", "=", "_", "a", "b", "c", "d", "e", "f", "g", "h", "i", "j", "k", "l", "m", "n",
      "o", "p", "q", "r", "s", "t", "u", "v", "w", "x", "y", "z">>

Ord(c) == CHOOSE i \in 1..Len(AsciiOrder) : AsciiOrder[i] = c

RECURSIVE StrLess(_, _)
\* a < b on str
StrLess(a, b) ==
    IF b = <<>> THEN FALSE
    ELSE IF a = <<>> THEN TRUE
    ELSE IF Head(a) = Head(b) THEN StrLess(Tail(a), Tail(b))
    ELSE Ord(Head(a)) < Ord(Head(b))

RECURSIVE Insert(_, _)
Insert(sorted, x) ==
    IF sorted = <<>> THEN <<x>>
    ELSE IF StrLess(x, Head(sorted)) THEN <<x>> \o sorted
    ELSE <<Head(sorted)>> \o Insert(Tail(sorted), x)

RECURSIVE Sorted(_)
\* sorted(names), names a sequence of distinct str
Sorted(names) ==
    IF names = <<>> THEN <<>> ELSE Insert(Sorted(DropLast(names, 1)), names[Len(names)])

\* [x for x in s if P]
SelectSeqIn(s, set) == SelectSeq(s, LAMBDA x : x \in set)

SelectSeqNotIn(s, set) == SelectSeq(s, LAMBDA x : x \notin set)

\* ------------------------------------------------------------------------
\* Python dict: the sequence of its items [key, val] in insertion order
\* ------------------------------------------------------------------------

DictHas(d, k) == \E i \in 1..Len(d) : d[i].key = k

DictGet(d, k) == d[CHOOSE i \in 1..Len(d) : d[i].key = k].val

\* d[k] = v: an existing key keeps its place
DictSet(d, k, v) ==
    IF DictHas(d, k)
    THEN [i \in 1..Len(d) |-> IF d[i].key = k THEN [key |-> k, val |-> v] ELSE d[i]]
    ELSE Append(d, [key |-> k, val |-> v])

DictKeys(d) == [i \in 1..Len(d) |-> d[i].key]

\* ------------------------------------------------------------------------
\* String literals of zbackup.py
\* ------------------------------------------------------------------------

\* ZFS user property module prefix
ZBACKUP_MODULE ==
    <<"c", "o", "m", ".", "g", "i", "t", "h", "u", "b", ".", "t", "e", "s", "u", "j", "i", "m",
      "a", "t", "h", ".", "z", "b", "a", "c", "k", "u", "p">>

ZBACKUP_MODULE_SKIPLEN == Len(ZBACKUP_MODULE) + 1

REPLICA_PROPERTY == <<"r", "e", "p", "l", "i", "c", "a">>

REPLICATE_PROPERTY == <<"r", "e", "p", "l", "i", "c", "a", "t", "e">>

SNAPSHOTS_PROPERTY_SUFFIX == <<"-", "s", "n", "a", "p", "s", "h", "o", "t", "s">>

SNAPSHOT_LIMIT_PROPERTY_SUFFIX ==
    <<"-", "s", "n", "a", "p", "s", "h", "o", "t", "-", "l", "i", "m", "i", "t">>

Local == <<"l", "o", "c", "a", "l">>

Received == <<"r", "e", "c", "e", "i", "v", "e", "d">>

Inherited == <<"i", "n", "h", "e", "r", "i", "t", "e", "d">>

\* the value property_has_value() takes for "no value"
NONE_VALUE == <<"n", "o", "n", "e">>

\* the value "zfs get" prints for a property that is not set
UNSET == <<"-">>

ALL == <<"a", "l", "l">>

ZSNAP == <<"z", "s", "n", "a", "p">>

ZREPLICATE == <<"z", "r", "e", "p", "l", "i", "c", "a", "t", "e">>

ZFS == <<"z", "f", "s">>

ZPOOL == <<"z", "p", "o", "o", "l">>

Flag(c) == <<"-", c>>

NOSNAPSHOT == <<"-", "-", "n", "o", "s", "n", "a", "p", "s", "h", "o", "t">>

CREATE_DESTINATION ==
    <<"-", "-", "c", "r", "e", "a", "t", "e", "-", "d", "e", "s", "t", "i", "n", "a", "t", "i",
      "o", "n">>

NO_REPLICATION_STREAM ==
    <<"-", "-", "n", "o", "-", "r", "e", "p", "l", "i", "c", "a", "t", "i", "o", "n", "-", "s",
      "t", "r", "e", "a", "m">>

\* the default of --prefix
DEFAULT_PREFIX == <<"a", "u", "t", "o", "-">>

\* ------------------------------------------------------------------------
\* Property names
\* ------------------------------------------------------------------------

\* property with <ZBACKUP_MODULE> prefix
zprefixed(prop) == ZBACKUP_MODULE \o <<":">> \o prop

is_zprefixed(maybe_prefixed_property) ==
    StartsWith(maybe_prefixed_property, ZBACKUP_MODULE \o <<":">>)

zunprefixed(prefixed_property) == DropFirst(prefixed_property, ZBACKUP_MODULE_SKIPLEN)

snapshots_property(tier) == tier \o SNAPSHOTS_PROPERTY_SUFFIX

snapshot_limit_property(tier) == tier \o SNAPSHOT_LIMIT_PROPERTY_SUFFIX

zbackup_properties(tier) ==
    << REPLICA_PROPERTY,
       REPLICATE_PROPERTY,
       snapshots_property(tier),
       snapshot_limit_property(tier) >>

\* ------------------------------------------------------------------------
\* Messages.  A %-formatted message is kept as its format and its arguments.
\* ------------------------------------------------------------------------

Message(fmt, margs) == [fmt |-> fmt, args |-> margs]

\* highlight(line)
highlight(line) == Message("========== %s ==========", <<line>>)

\* zfs_tools.util.stderr(message): writes the message to the error stream
stderr(stream, message) == Append(stream, message)

\* zfs_tools.util.verbose_stderr(message): the same, when --verbose is set
verbose_stderr(stream, options, message) ==
    IF options.verbose THEN Append(stream, message) ELSE stream

\* subprocess.CalledProcessError(retcode, cmd)
CalledProcessError(retcode, cmd) ==
    [type |-> "CalledProcessError", returncode |-> retcode, cmd |-> cmd]

\* the ValueError of unpacking a line that does not have four fields
UnpackError(fields) == [type |-> "ValueError", returncode |-> 0, cmd |-> fields]

\* ------------------------------------------------------------------------
\* get_zpools, get_backup_properties
\* ------------------------------------------------------------------------

zpool_list_cmd == <<ZPOOL, <<"l", "i", "s", "t">>, Flag("H")>>

\* get_zpools(): the first field of every line "zpool list -H" prints
get_zpools(zpool_list_stdout) ==
    [i \in 1..Len(zpool_list_stdout) |-> SplitWs(zpool_list_stdout[i])[1]]

\* tier is None, or Some(tier)
property_ids(tier) ==
    IF tier # None
    THEN LET props == zbackup_properties(tier[1])
         IN  Join([i \in 1..Len(props) |-> zprefixed(props[i])], <<",">>)
    ELSE ALL

zfs_get_cmd(zpool, tier) ==
    <<ZFS, <<"g", "e", "t">>, Flag("H"), Flag("r"), Flag("t"), <<"f", "i", "l", "e", "s", "y", "s", "t", "e", "m">>,
      property_ids(tier), zpool>>

\* source.startswith("inherited") -> "inherited"
normalized_source(source) == IF StartsWith(source, Inherited) THEN Inherited ELSE source

\* is_kept_source keeping inherited properties too
is_kept_source_with_inherited(source) ==
    source = Local \/ source = Received \/ source = Inherited

\* the sources get_backup_properties keeps
is_kept_source(source) == source = Local \/ source = Received

\* the values get_backup_properties keeps
is_kept_value(value) == value # UNSET

\* The body of the loop over the lines of "zfs get": the dict after the line,
\* what verbose_stderr wrote, and the exception it raised (None: none).
read_line(properties, line, options) ==
    LET fields == Split(RStripChars(line, {"\n"}), "\t")
    IN  IF Len(fields) # 4
        THEN [properties |-> properties, err |-> <<>>, exc |-> Some(UnpackError(fields))]
        ELSE
        LET name == fields[1]
            prop == fields[2]
            value == fields[3]
            source == normalized_source(fields[4])
            bare_property == zunprefixed(prop)
            with_name == IF DictHas(properties, name)
                         THEN properties
                         ELSE DictSet(properties, name, <<>>)
        IN  IF ~is_zprefixed(prop) \/ ~is_kept_source(source)
            THEN [properties |-> properties, err |-> <<>>, exc |-> None]
            ELSE IF ~is_kept_value(value)
            THEN [properties |-> with_name, err |-> <<>>, exc |-> None]
            ELSE [properties |->
                      DictSet(with_name, name,
                              DictSet(DictGet(with_name, name), bare_property,
                                      <<value, source>>)),
                  err |-> verbose_stderr(<<>>, options,
                              Message("%s %s=%s %s", <<name, bare_property, value, source>>)),
                  exc |-> None]

\* ------------------------------------------------------------------------
\* snapshot, replicate: the command each one runs with check_call
\* ------------------------------------------------------------------------

\* snapshot(): its zsnap_command
snapshot(tier, filesystem, take_snapshot, keep, options) ==
    <<ZSNAP, Flag("k"), IntToStr(keep), Flag("p"), options.prefix \o tier \o <<"-">>>>
    \o (IF ~take_snapshot THEN <<NOSNAPSHOT>> ELSE <<>>)
    \o (IF options.verbose THEN <<Flag("v")>> ELSE <<>>)
    \o (IF options.timeformat # None THEN <<Flag("t"), options.timeformat[1]>> ELSE <<>>)
    \o (IF options.dryrun THEN <<Flag("n")>> ELSE <<>>)
    \o (IF options.zsnap_options # None THEN SplitWs(options.zsnap_options[1]) ELSE <<>>)
    \o <<filesystem>>

\* replicate(): its zreplicate_command
zreplicate_command(filesystem, destination, options) ==
    <<ZREPLICATE, CREATE_DESTINATION, NO_REPLICATION_STREAM>>
    \o (IF options.verbose THEN <<Flag("v")>> ELSE <<>>)
    \o (IF options.dryrun THEN <<Flag("n")>> ELSE <<>>)
    \o (IF options.zreplicate_options # None
        THEN SplitWs(options.zreplicate_options[1])
        ELSE <<>>)
    \o <<filesystem, destination>>

\* replicate() replicating before it deletes the snapshots of the other tiers
replicate_before_prune(filesystem, destination, options) ==
    LET tiers == IF options.delete_tiers # None
                 THEN Split(options.delete_tiers[1], ",")
                 ELSE <<>>
    IN  <<zreplicate_command(filesystem, destination, options)>>
        \o [i \in 1..Len(tiers) |-> snapshot(tiers[i], filesystem, FALSE, 0, options)]

\* replicate(): the commands it runs, in order: the snapshots of the other
\* tiers are deleted first, then the filesystem is replicated.
replicate(filesystem, destination, options) ==
    LET tiers == IF options.delete_tiers # None
                 THEN Split(options.delete_tiers[1], ",")
                 ELSE <<>>
    IN  [i \in 1..Len(tiers) |-> snapshot(tiers[i], filesystem, FALSE, 0, options)]
        \o <<zreplicate_command(filesystem, destination, options)>>

\* ------------------------------------------------------------------------
\* backup_or_reap_snapshots
\* ------------------------------------------------------------------------

\* whether the property has a (not none) value
property_has_value(properties, property_name) ==
    IF DictHas(properties, property_name)
    THEN DictGet(properties, property_name)[1] # NONE_VALUE
    ELSE FALSE

\* property_int_value_or_none swallowing the ValueError without a message
property_int_value_or_none_silent(filesystem, properties, property_name) ==
    IF property_has_value(properties, property_name)
    THEN [value |-> ParseInt(DictGet(properties, property_name)[1]),
          source |-> Some(DictGet(properties, property_name)[2]),
          err |-> <<>>]
    ELSE [value |-> None, source |-> None, err |-> <<>>]

\* the property value as an integer, or None; with what it wrote to stderr
property_int_value_or_none(filesystem, properties, property_name) ==
    IF property_has_value(properties, property_name)
    THEN LET value_s == DictGet(properties, property_name)[1]
             source == DictGet(properties, property_name)[2]
             value == ParseInt(value_s)
         IN  [value |-> value,
              source |-> Some(source),
              err |-> IF value = None
                      THEN stderr(<<>>,
                               Message("badly formed %s=%s property for %s (should be integer)",
                                       <<property_name, DictGet(properties, property_name),
                                         filesystem>>))
                      ELSE <<>>]
    ELSE [value |-> None, source |-> None, err |-> <<>>]

\* take_snapshot_decision without the test of the source
take_snapshot_any_source(snapshots, snapshots_source) == snapshots # None

\* we only take a snapshot if the property source is local
take_snapshot_decision(snapshots, snapshots_source) ==
    snapshots # None /\ snapshots_source = Some(Local)

\* keep_decision with the override the other way round
keep_snapshots_first(snapshots, snapshot_limit) ==
    IF snapshots # None THEN snapshots ELSE snapshot_limit

\* snapshot-limit property, overrides value of snapshots if both present
keep_decision(snapshots, snapshot_limit) ==
    IF snapshot_limit # None THEN snapshot_limit ELSE snapshots

\* replicate_decision without the test of the source of replica
replicate_decision_any_replica_source(tier, properties) ==
    /\ property_has_value(properties, REPLICATE_PROPERTY)
    /\ DictGet(properties, REPLICATE_PROPERTY) = <<tier, Local>>
    /\ property_has_value(properties, REPLICA_PROPERTY)

\* replicate? - only if the source of both properties is local
replicate_decision(tier, properties) ==
    /\ property_has_value(properties, REPLICATE_PROPERTY)
    /\ DictGet(properties, REPLICATE_PROPERTY) = <<tier, Local>>
    /\ property_has_value(properties, REPLICA_PROPERTY)
    /\ DictGet(properties, REPLICA_PROPERTY)[2] = Local

RECURSIVE Concat(_)
Concat(seqs) == IF seqs = <<>> THEN <<>> ELSE Head(seqs) \o Concat(Tail(seqs))

\* for x in replica.split(","): replicate(filesystem, replica, options)
replicate_all(filesystem, replica, options) ==
    LET xs == Split(replica, ",")
    IN  Concat([i \in 1..Len(xs) |-> replicate(filesystem, replica, options)])

\* What backup_or_reap_snapshots writes to stderr before its first command,
\* and the commands it runs with check_call, in order.
backup_or_reap_snapshots(tier, filesystem, properties, options) ==
    LET s == property_int_value_or_none(filesystem, properties, snapshots_property(tier))
        take_snapshot == take_snapshot_decision(s.value, s.source)
        l == property_int_value_or_none(filesystem, properties,
                                        snapshot_limit_property(tier))
        snapshots == keep_decision(s.value, l.value)
    IN  [err |-> s.err \o l.err,
         cmds |->
            (IF snapshots # None
             THEN <<snapshot(tier, filesystem, take_snapshot, snapshots[1], options)>>
             ELSE <<>>)
            \o (IF replicate_decision(tier, properties)
                THEN replicate_all(filesystem, DictGet(properties, REPLICA_PROPERTY)[1],
                                   options)
                ELSE <<>>)]

\* ------------------------------------------------------------------------
\* format_backup_properties, list_backup_properties
\* ------------------------------------------------------------------------

\* the tier of a snapshots or snapshot-limit property name, or None
snapshot_tier_of(name) ==
    IF EndsWith(name, SNAPSHOTS_PROPERTY_SUFFIX)
    THEN Some(DropLast(name, Len(SNAPSHOTS_PROPERTY_SUFFIX)))
    ELSE IF EndsWith(name, SNAPSHOT_LIMIT_PROPERTY_SUFFIX)
    THEN Some(DropLast(name, Len(SNAPSHOT_LIMIT_PROPERTY_SUFFIX)))
    ELSE None

RECURSIVE fill_defaults(_, _)
\* non_local snapshot properties provide defaults for snapshot-limit if not
\* set locally: the loop over non_local, in the order of the dict
fill_defaults(local_and_defaults, non_local) ==
    IF non_local = <<>> THEN local_and_defaults
    ELSE LET snapshot_tier == snapshot_tier_of(Head(non_local).key)
         IN  IF /\ snapshot_tier # None
                /\ ~DictHas(local_and_defaults, snapshot_limit_property(snapshot_tier[1]))
             THEN fill_defaults(DictSet(local_and_defaults,
                                        snapshot_limit_property(snapshot_tier[1]),
                                        Head(non_local).val),
                                Tail(non_local))
             ELSE fill_defaults(local_and_defaults, Tail(non_local))

format_backup_properties(properties) ==
    LET local_and_defaults ==
            fill_defaults(SelectSeq(properties, LAMBDA item : item.val[2] = Local),
                          SelectSeq(properties, LAMBDA item : item.val[2] # Local))
        keys == Sorted(DictKeys(local_and_defaults))
        names == SelectSeqNotIn(keys, {REPLICA_PROPERTY, REPLICATE_PROPERTY})
                 \o SelectSeqIn(keys, {REPLICA_PROPERTY, REPLICATE_PROPERTY})
    IN  Join([i \in 1..Len(names) |->
                 names[i] \o <<"=">> \o DictGet(local_and_defaults, names[i])[1]],
             <<" ">>)

\* list_backup_properties(): the lines it prints for one zpool
list_lines(backup_properties) ==
    LET filesystems == Sorted(DictKeys(backup_properties))
    IN  [i \in 1..Len(filesystems) |->
            filesystems[i] \o <<" ">>
            \o format_backup_properties(DictGet(backup_properties, filesystems[i]))]

\* ------------------------------------------------------------------------
\* set_backup_properties, unset_backup_properties
\* ------------------------------------------------------------------------

zfs_set_cmd(filesystem, prop, value) ==
    <<ZFS, <<"s", "e", "t">>, zprefixed(prop) \o <<"=">> \o value, filesystem>>

zfs_inherit_cmd(filesystem, prop) == <<ZFS, <<"i", "n", "h", "e", "r", "i", "t">>, zprefixed(prop), filesystem>>

\* ------------------------------------------------------------------------
\* State
\* ------------------------------------------------------------------------

VARIABLES
    options,     \* the parsed command line options
    args,        \* the positional arguments, args[1] the program name
    pc,          \* where main() is
    zpools,      \* backup_by_properties / list_backup_properties: zpools left
    properties,  \* get_backup_properties: the dict it builds and returns
    nlines,      \* lines of "zfs get" output read so far in this run
    todo,        \* backup_by_properties: filesystems of the zpool left
    calls,       \* every process started: its command and the exit status the
                 \* program collected (None: not collected)
    err,         \* messages written to stderr
    out,         \* lines written to stdout
    mail,        \* failure emails handed to send_failure_email
    exc,         \* the exception being raised (None: none)
    status       \* the exit status of the program (None: still running)

vars ==
    <<options, args, pc, zpools, properties, nlines, todo, calls, err, out, mail, exc,
      status>>

\* ------------------------------------------------------------------------
\* Inputs
\* ------------------------------------------------------------------------

PROG == <<"z", "b", "a", "c", "k", "u", "p">>

PoolName(i) == <<"p">> \o IntToStr(i)

\* a line of "zpool list -H": name, then other columns, tab separated
ZpoolLine(i) == PoolName(i) \o <<"\t", "1", "G", "\n">>

\* a line of "zfs get -H": name, property, value, source
Line(name, prop, value, source) == Join(<<name, prop, value, source>>, <<"\t">>) \o <<"\n">>

InheritedFrom(name) == Inherited \o <<" ", "f", "r", "o", "m", " ">> \o name

\* the option defaults of main()'s parser
DefaultOptions ==
    [delete_tiers |-> None, prefix |-> DEFAULT_PREFIX, verbose |-> FALSE,
     email_failure |-> None, timeformat |-> None, dryrun |-> FALSE, list |-> FALSE,
     set |-> FALSE, unset |-> FALSE, zreplicate_options |-> None,
     zsnap_options |-> None]

RetCodes == {0, 1}

\* the tier get_backup_properties is called with
query_tier == IF options.list THEN None ELSE Some(args[2])

\* ------------------------------------------------------------------------
\* Running commands
\* ------------------------------------------------------------------------

Call(cmd, rc) == [cmd |-> cmd, rc |-> rc]

\* subprocess.check_call(cmd) that ends with status rc: what it raises
check_call(cmd, rc) == IF rc # 0 THEN Some(CalledProcessError(rc, cmd)) ELSE None

\* get_backup_properties without its return code check
wait_check_ignored(cmd, retcode) == None

\* the return code check of get_backup_properties
wait_check(cmd, retcode) == IF retcode # 0 THEN Some(CalledProcessError(retcode, cmd)) ELSE None

\* Commands run one after the other with check_call, the first k of them
\* succeeding and the next one, if any, failing: the calls made.
RunCalls(cmds, k) ==
    [i \in 1..(IF k < Len(cmds) THEN k + 1 ELSE Len(cmds)) |->
        Call(cmds[i], Some(IF i <= k THEN 0 ELSE 1))]

\* ... and the exception raised
RunExc(cmds, k) ==
    IF k < Len(cmds) THEN check_call(cmds[k + 1], 1) ELSE None

RECURSIVE Highlights(_, _)
\* snapshot(), replicate(): verbose_stderr(highlight(" ".join(command))) before
\* each command that is run
Highlights(ran, opts) ==
    IF ran = <<>> THEN <<>>
    ELSE verbose_stderr(<<>>, opts, highlight(Join(Head(ran).cmd, <<" ">>)))
         \o Highlights(Tail(ran), opts)

AfterPool(zs) == IF zs = <<>> THEN "return" ELSE "pool"

\* ------------------------------------------------------------------------
\* Actions
\* ------------------------------------------------------------------------

Usage(message) ==
    /\ err' = stderr(err, message)
    /\ status' = Some(1)
    /\ pc' = "exit"

\* main(): the dispatch on the options
main ==
    /\ pc = "main"
    /\ IF options.list
       THEN pc' = "get_zpools" /\ UNCHANGED <<err, status>>
       ELSE IF options.set
       THEN IF Len(args) >= 3
            THEN pc' = "set" /\ UNCHANGED <<err, status>>
            ELSE Usage("usage: zbackup --set <filesystem> <property=value> ...")
       ELSE IF options.unset
       THEN IF Len(args) >= 3
            THEN pc' = "unset" /\ UNCHANGED <<err, status>>
            ELSE Usage("usage: zbackup --unset <filesystem> <property> ...")
       ELSE IF Len(args) = 2
            THEN pc' = "get_zpools" /\ UNCHANGED <<err, status>>
            ELSE Usage("usage: zbackup <tier>")
    /\ UNCHANGED <<options, args, zpools, properties, nlines, todo, calls, out, mail, exc>>

\* get_zpools(), "zpool list -H" printing n lines; its exit status is never
\* collected
GetZpools(n) ==
    /\ pc = "get_zpools"
    /\ zpools' = get_zpools([i \in 1..n |-> ZpoolLine(i)])
    /\ calls' = Append(calls, Call(zpool_list_cmd, None))
    /\ pc' = AfterPool(zpools')
    /\ UNCHANGED <<options, args, properties, nlines, todo, err, out, mail, exc, status>>

\* get_backup_properties(zpool, options, tier): "zfs get" is started
ZfsGetPopen ==
    /\ pc = "pool"
    /\ properties' = <<>>
    /\ calls' = Append(calls, Call(zfs_get_cmd(Head(zpools), query_tier), None))
    /\ pc' = "reading"
    /\ UNCHANGED <<options, args, zpools, nlines, todo, err, out, mail, exc, status>>

\* get_backup_properties: one line of the output of "zfs get" is read
ReadLine(line) ==
    /\ pc = "reading"
    /\ nlines < MaxLines
    /\ LET r == read_line(properties, line, options)
       IN  /\ properties' = r.properties
           /\ err' = err \o r.err
           /\ exc' = r.exc
           /\ pc' = IF r.exc # None THEN "except" ELSE "reading"
    /\ nlines' = nlines + 1
    /\ UNCHANGED <<options, args, zpools, todo, calls, out, mail, status>>

\* get_backup_properties: the output has ended and "zfs get" exits with
\* retcode; then the caller's loop over the filesystems begins
ZfsGetWait(retcode) ==
    /\ pc = "reading"
    /\ LET cmd == calls[Len(calls)].cmd
           raised == wait_check(cmd, retcode)
       IN  /\ calls' = [calls EXCEPT ![Len(calls)] = Call(cmd, Some(retcode))]
           /\ exc' = raised
           /\ IF raised # None
              THEN pc' = "except" /\ UNCHANGED <<zpools, todo, out>>
              ELSE IF options.list
              THEN /\ out' = out \o list_lines(properties)
                   /\ zpools' = Tail(zpools)
                   /\ pc' = AfterPool(zpools')
                   /\ todo' = todo
              ELSE /\ todo' = DictKeys(properties)
                   /\ zpools' = IF todo' = <<>> THEN Tail(zpools) ELSE zpools
                   /\ pc' = IF todo' = <<>> THEN AfterPool(zpools') ELSE "backup"
                   /\ out' = out
    /\ UNCHANGED <<options, args, properties, nlines, err, mail, status>>

\* backup_by_properties: backup_or_reap_snapshots for the next filesystem,
\* the first k of its commands succeeding
BackupOrReap ==
    /\ pc = "backup"
    /\ LET filesystem == Head(todo)
           r == backup_or_reap_snapshots(args[2], filesystem,
                                         DictGet(properties, filesystem), options)
       IN  \E k \in 0..Len(r.cmds) :
           /\ calls' = calls \o RunCalls(r.cmds, k)
           /\ err' = err \o r.err \o Highlights(RunCalls(r.cmds, k), options)
           /\ exc' = RunExc(r.cmds, k)
           /\ IF exc' # None
              THEN pc' = "except" /\ UNCHANGED <<todo, zpools>>
              ELSE /\ todo' = Tail(todo)
                   /\ zpools' = IF todo' = <<>> THEN Tail(zpools) ELSE zpools
                   /\ pc' = IF todo' = <<>> THEN AfterPool(zpools') ELSE "backup"
    /\ UNCHANGED <<options, args, properties, nlines, out, mail, status>>

\* set_backup_properties: the command of each well formed property=value
set_commands(filesystem, property_values) ==
    LET good == SelectSeq(property_values, LAMBDA pv : Len(Split(pv, "=")) = 2)
    IN  [i \in 1..Len(good) |->
            zfs_set_cmd(filesystem, Split(good[i], "=")[1], Split(good[i], "=")[2])]

RECURSIVE set_ignored(_, _)
\* set_backup_properties: the complaints about the other ones, up to the
\* (k+1)st well formed one
set_ignored(property_values, k) ==
    IF property_values = <<>> THEN <<>>
    ELSE IF Len(Split(Head(property_values), "=")) = 2
    THEN (IF k = 0 THEN <<>> ELSE set_ignored(Tail(property_values), k - 1))
    ELSE <<Message("zbackup: ignoring badly formatted property=value: %s\n",
                   <<Head(property_values)>>)>>
         \o set_ignored(Tail(property_values), k)

unset_commands(filesystem, props) ==
    [i \in 1..Len(props) |-> zfs_inherit_cmd(filesystem, props[i])]

\* sys.stdout.write("%s\n" % " ".join(zfs_command)) before each command run
Echoes(ran) == [i \in 1..Len(ran) |-> Join(ran[i].cmd, <<" ">>)]

\* set_backup_properties(args[1], args[2:]), the first k commands succeeding
SetBackupProperties ==
    /\ pc = "set"
    /\ LET cmds == set_commands(args[2], DropFirst(args, 2))
       IN  \E k \in 0..Len(cmds) :
           /\ calls' = calls \o RunCalls(cmds, k)
           /\ out' = out \o Echoes(RunCalls(cmds, k))
           /\ err' = err \o set_ignored(DropFirst(args, 2), k)
           /\ exc' = RunExc(cmds, k)
           /\ pc' = IF exc' # None THEN "except" ELSE "return"
    /\ UNCHANGED <<options, args, zpools, properties, nlines, todo, mail, status>>

\* unset_backup_properties(args[1], args[2:]), the first k commands succeeding
UnsetBackupProperties ==
    /\ pc = "unset"
    /\ LET cmds == unset_commands(args[2], DropFirst(args, 2))
       IN  \E k \in 0..Len(cmds) :
           /\ calls' = calls \o RunCalls(cmds, k)
           /\ out' = out \o Echoes(RunCalls(cmds, k))
           /\ exc' = RunExc(cmds, k)
           /\ pc' = IF exc' # None THEN "except" ELSE "return"
    /\ UNCHANGED <<options, args, zpools, properties, nlines, todo, err, mail, status>>

\* main(): except Exception as e: report exception and exit.  The email is
\* handed to send_failure_email, which delivers it or raises in its turn;
\* the program exits with status 1 either way.
Except(delivered) ==
    /\ pc = "except"
    /\ LET message == Message("zbackup failed with exception: %s", <<exc[1]>>)
       IN  /\ err' = stderr(err, message)
           /\ mail' = IF options.email_failure # None
                      THEN Append(mail, [recipient |-> options.email_failure[1],
                                         message |-> message,
                                         delivered |-> delivered])
                      ELSE mail
    /\ status' = Some(1)
    /\ pc' = "exit"
    /\ UNCHANGED <<options, args, zpools, properties, nlines, todo, calls, out, exc>>

\* main() returns: the program exits with status 0
Return ==
    /\ pc = "return"
    /\ status' = Some(0)
    /\ pc' = "exit"
    /\ UNCHANGED <<options, args, zpools, properties, nlines, todo, calls, err, out, mail,
                   exc>>

\* ------------------------------------------------------------------------
\* Spec: whole runs of zbackup, in every mode
\* ------------------------------------------------------------------------

Filesystems(zpool) == {zpool, zpool \o <<"/", "a">>}

ModeOptions ==
    {[DefaultOptions EXCEPT !.list = m[1], !.set = m[2], !.unset = m[3]] :
        m \in {<<FALSE, FALSE, FALSE>>, <<TRUE, FALSE, FALSE>>,
               <<FALSE, TRUE, FALSE>>, <<FALSE, FALSE, TRUE>>}}

RunOptions ==
    {[o EXCEPT !.dryrun = d, !.verbose = v, !.delete_tiers = t, !.email_failure = e] :
        o \in ModeOptions, d \in BOOLEAN, v \in BOOLEAN, t \in {None, Some(<<"w">>)},
        e \in {None, Some(<<"r">>)}}

\* the command lines tried for each mode
RunArgs(o) ==
    IF o.list THEN {<<PROG>>}
    ELSE IF o.set
    THEN {<<PROG, PoolName(1)>>,
          <<PROG, PoolName(1), <<"r", "e", "p", "l", "i", "c", "a", "=", "b">>>>,
          <<PROG, PoolName(1), <<"r", "e", "p", "l", "i", "c", "a">>, <<"r", "e", "p", "l", "i", "c", "a", "t", "e", "=", "d">>>>}
    ELSE IF o.unset
    THEN {<<PROG, PoolName(1)>>,
          <<PROG, PoolName(1), REPLICA_PROPERTY, REPLICATE_PROPERTY>>}
    ELSE {<<PROG>>, <<PROG, <<"d">>>>}

\* the lines "zfs get" may print for a zpool in a whole run
RunLines(zpool) ==
    {Line(f, zprefixed(pv[1]), pv[2], pv[3]) :
        f \in Filesystems(zpool),
        pv \in {<<snapshots_property(<<"d">>), <<"1">>, Local>>,
                <<REPLICATE_PROPERTY, <<"d">>, Local>>,
                <<REPLICA_PROPERTY, <<"b">>, Local>>,
                <<snapshot_limit_property(<<"d">>), UNSET, UNSET>>}}

Start(o, a) ==
    /\ options = o
    /\ args = a
    /\ nlines = 0
    /\ err = <<>>
    /\ out = <<>>
    /\ mail = <<>>
    /\ exc = None
    /\ status = None

Init ==
    /\ \E o \in RunOptions : \E a \in RunArgs(o) : Start(o, a)
    /\ zpools = <<>>
    /\ properties = <<>>
    /\ todo = <<>>
    /\ calls = <<>>
    /\ pc = "main"

Next ==
    \/ main
    \/ \E n \in 0..MaxPools : GetZpools(n)
    \/ ZfsGetPopen
    \/ pc = "reading" /\ \E line \in RunLines(Head(zpools)) : ReadLine(line)
    \/ \E retcode \in RetCodes : ZfsGetWait(retcode)
    \/ BackupOrReap
    \/ SetBackupProperties
    \/ UnsetBackupProperties
    \/ \E delivered \in BOOLEAN : Except(delivered)
    \/ Return

Spec == Init /\ [][Next]_vars

\* ------------------------------------------------------------------------
\* SpecReader: get_backup_properties on the output of one "zfs get", for a
\* tier (backup) and for all properties (--list), and what is done with the
\* dict it returns
\* ------------------------------------------------------------------------

ReaderOptions == {[DefaultOptions EXCEPT !.list = l] : l \in BOOLEAN}

ReaderArgs(o) == IF o.list THEN <<PROG>> ELSE <<PROG, <<"d">>>>

\* the properties "zfs get" reports: those asked for, or with "all" every
\* property of the filesystem, those of other modules too
ReaderProperties(tier) ==
    IF tier # None
    THEN {zprefixed(p) : p \in Range(zbackup_properties(tier[1]))}
    ELSE {zprefixed(snapshots_property(<<"d">>)),
          zprefixed(snapshot_limit_property(<<"d">>)),
          zprefixed(REPLICA_PROPERTY),
          <<"c", "o", "m", "p", "r", "e", "s", "s", "i", "o", "n">>}

ReaderValues == {<<"7">>, <<"3">>, UNSET}

ReaderSources(zpool) == {Local, Received, InheritedFrom(zpool), UNSET}

\* the lines "zfs get" may print for a zpool; the last one has a tab in its value
ReaderLines(zpool, tier) ==
    {Line(f, p, v, s) : f \in Filesystems(zpool), p \in ReaderProperties(tier),
                        v \in ReaderValues, s \in ReaderSources(zpool)}
    \cup {Line(zpool, zprefixed(REPLICA_PROPERTY), <<"b", "\t", "c">>, Local)}

\* "zfs get" has been started for the one zpool
InitReader ==
    /\ \E o \in ReaderOptions : Start(o, ReaderArgs(o))
    /\ zpools = <<PoolName(1)>>
    /\ properties = <<>>
    /\ todo = <<>>
    /\ calls = <<Call(zpool_list_cmd, None),
                 Call(zfs_get_cmd(PoolName(1), query_tier), None)>>
    /\ pc = "reading"

NextReader ==
    \/ pc = "reading"
       /\ \E line \in ReaderLines(Head(zpools), query_tier) : ReadLine(line)
    \/ \E retcode \in RetCodes : ZfsGetWait(retcode)
    \/ BackupOrReap
    \/ \E delivered \in BOOLEAN : Except(delivered)
    \/ Return

SpecReader == InitReader /\ [][NextReader]_vars

\* ------------------------------------------------------------------------
\* SpecDecide: backup_or_reap_snapshots on every property dict that
\* get_backup_properties can return for a filesystem, over these values
\* ------------------------------------------------------------------------

DecideTiers == {<<"d">>, <<"w">>}

\* --delete-tiers names other tiers than the one backed up
DecideDeleteTiers == {None, Some(<<"m">>), Some(<<"m", ",", "y">>)}

DecideOptions == {[DefaultOptions EXCEPT !.delete_tiers = t] : t \in DecideDeleteTiers}

KeptSources == {Local, Received}

\* nothing, or one item of a dict
Items(name, values) ==
    {<<>>} \cup {<<[key |-> name, val |-> <<v, s>>]>> : v \in values, s \in KeptSources}

SnapshotsValues == {<<"7">>, <<" ", "3">>, <<"x">>, NONE_VALUE}

SnapshotLimitValues == {<<"3">>, <<"-", "1">>, <<"7", "x">>, NONE_VALUE}

ReplicateValues == {<<"d">>, <<"w">>, NONE_VALUE}

ReplicaValues == {<<"b">>, <<"b", ",", "c">>, NONE_VALUE}

DecideProperties(tier) ==
    {a \o b \o c \o d :
        a \in Items(snapshots_property(tier), SnapshotsValues),
        b \in Items(snapshot_limit_property(tier), SnapshotLimitValues),
        c \in Items(REPLICATE_PROPERTY, ReplicateValues),
        d \in Items(REPLICA_PROPERTY, ReplicaValues)}

\* the first filesystem, whose properties vary, and the one after it
Fs1 == PoolName(1)

Fs2 == PoolName(1) \o <<"/", "a">>

Fs2Properties(tier) == <<[key |-> snapshots_property(tier), val |-> <<<<"1">>, Local>>]>>

\* get_backup_properties has returned the properties of the two filesystems
InitDecide ==
    /\ \E o \in DecideOptions : \E tier \in DecideTiers :
          /\ Start(o, <<PROG, tier>>)
          /\ \E p \in DecideProperties(tier) :
                properties = <<[key |-> Fs1, val |-> p],
                               [key |-> Fs2, val |-> Fs2Properties(tier)]>>
          /\ calls = <<Call(zpool_list_cmd, None),
                       Call(zfs_get_cmd(PoolName(1), Some(tier)), Some(0))>>
    /\ zpools = <<PoolName(1)>>
    /\ todo = <<Fs1, Fs2>>
    /\ pc = "backup"

NextDecide ==
    \/ BackupOrReap
    \/ \E delivered \in BOOLEAN : Except(delivered)
    \/ Return

SpecDecide == InitDecide /\ [][NextDecide]_vars

\* ------------------------------------------------------------------------
\* What the claims speak of
\* ------------------------------------------------------------------------

\* the tier of a backup run
RunTier == args[2]

IsSnapshotCall(c) == c.cmd[1] = ZSNAP

IsReplicateCall(c) == c.cmd[1] = ZREPLICATE

\* the filesystem a zsnap or zreplicate command works on
CmdFilesystem(cmd) == IF cmd[1] = ZREPLICATE THEN cmd[Len(cmd) - 1] ELSE cmd[Len(cmd)]

\* the destination of a zreplicate command
CmdDestination(cmd) == cmd[Len(cmd)]

\* the retain count of a zsnap command: the argument of -k
CmdKeep(cmd) == cmd[3]

\* the snapshot name prefix of a zsnap command: the argument of -p
CmdPrefix(cmd) == cmd[5]

\* the zsnap and zreplicate calls made for a filesystem, in order
ToolCalls(filesystem) ==
    SelectSeq(calls, LAMBDA c : /\ (IsSnapshotCall(c) \/ IsReplicateCall(c))
                                /\ CmdFilesystem(c.cmd) = filesystem)

\* the calls of the snapshot tool for the tier being backed up
TierSnapshotCalls(filesystem) ==
    SelectSeq(ToolCalls(filesystem),
              LAMBDA c : IsSnapshotCall(c) /\ CmdPrefix(c.cmd) = options.prefix \o RunTier \o <<"-">>)

\* the calls replicate() makes: the deletion of other tiers' snapshots and zreplicate
ReplicationCalls(filesystem) ==
    SelectSeq(ToolCalls(filesystem),
              LAMBDA c : ~(IsSnapshotCall(c) /\ CmdPrefix(c.cmd) = options.prefix \o RunTier \o <<"-">>))

\* a call that asks the snapshot tool for a new snapshot
CreatesSnapshot(c) == IsSnapshotCall(c) /\ NOSNAPSHOT \notin Range(c.cmd)

\* a prune call: snapshot tool, no new snapshot, retain count 0
IsPruneCall(c, tier, filesystem) ==
    /\ IsSnapshotCall(c)
    /\ NOSNAPSHOT \in Range(c.cmd)
    /\ CmdKeep(c.cmd) = <<"0">>
    /\ CmdPrefix(c.cmd) = options.prefix \o tier \o <<"-">>
    /\ CmdFilesystem(c.cmd) = filesystem

Failed(c) == c.rc # None /\ c.rc # Some(0)

\* SpecDecide: the properties of the first filesystem
P1 == DictGet(properties, Fs1)

\* SpecDecide: backup_or_reap_snapshots has run for the first filesystem
Handled1 == ~(pc = "backup" /\ todo = <<Fs1, Fs2>>)

\* the property is in the dict / with a value int() accepts
Present(p, name) == DictHas(p, name)

PresentInteger(p, name) == DictHas(p, name) /\ ParseInt(DictGet(p, name)[1]) # None

IntegerOf(p, name) == ParseInt(DictGet(p, name)[1])[1]

SourceOf(p, name) == DictGet(p, name)[2]

\* present with a value (other than none) and provenance local
PresentLocal(p, name) ==
    DictHas(p, name) /\ DictGet(p, name)[1] # NONE_VALUE /\ DictGet(p, name)[2] = Local

\* ------------------------------------------------------------------------
\* C1
\* ------------------------------------------------------------------------

\* C1: for every tier and every property set of a filesystem, the snapshot
\* tool is asked for a new snapshot (zsnap without --nosnapshot) if and only if
\* <tier>-snapshots is present with an integer value and provenance local;
\* otherwise no new snapshot is asked for, whatever <tier>-snapshot-limit is.
\* It is asked for at most once, and for the tier and the filesystem at hand.
C1_SnapshotIffLocalInteger ==
    LET creating == SelectSeq(ToolCalls(Fs1), CreatesSnapshot)
        local_integer == /\ PresentInteger(P1, snapshots_property(RunTier))
                         /\ SourceOf(P1, snapshots_property(RunTier)) = Local
    IN  /\ ~Handled1 => creating = <<>>
        /\ Handled1 =>
              /\ (creating # <<>>) <=> local_integer
              /\ Len(creating) <= 1
              /\ \A i \in 1..Len(creating) :
                    CmdPrefix(creating[i].cmd) = options.prefix \o RunTier \o <<"-">>

\* a new snapshot was asked for although a snapshot-limit is set as well
C1_Witness ==
    /\ Handled1
    /\ \E i \in 1..Len(calls) : CreatesSnapshot(calls[i]) /\ CmdFilesystem(calls[i].cmd) = Fs1
    /\ Present(P1, snapshot_limit_property(RunTier))

\* ------------------------------------------------------------------------
\* C2
\* ------------------------------------------------------------------------

\* C2 as claimed: whenever <tier>-snapshots (provenance local) and
\* <tier>-snapshot-limit are both present, the retain count handed to the
\* snapshot tool is the snapshot-limit value.
C2_AsClaimed ==
    (/\ Handled1
     /\ Present(P1, snapshots_property(RunTier))
     /\ SourceOf(P1, snapshots_property(RunTier)) = Local
     /\ Present(P1, snapshot_limit_property(RunTier)))
    => \A i \in 1..Len(TierSnapshotCalls(Fs1)) :
          /\ PresentInteger(P1, snapshot_limit_property(RunTier))
          /\ CmdKeep(TierSnapshotCalls(Fs1)[i].cmd)
                = IntToStr(IntegerOf(P1, snapshot_limit_property(RunTier)))

\* C2, amended: whenever <tier>-snapshots (provenance local) is present and
\* <tier>-snapshot-limit is present with an integer value, the snapshot tool
\* is called once for the tier and the retain count it is handed is the
\* snapshot-limit value, whether or not a new snapshot is taken.
C2_RetainIsIntegerLimit ==
    (/\ Handled1
     /\ Present(P1, snapshots_property(RunTier))
     /\ SourceOf(P1, snapshots_property(RunTier)) = Local
     /\ PresentInteger(P1, snapshot_limit_property(RunTier)))
    => /\ Len(TierSnapshotCalls(Fs1)) = 1
       /\ CmdKeep(TierSnapshotCalls(Fs1)[1].cmd)
             = IntToStr(IntegerOf(P1, snapshot_limit_property(RunTier)))

\* both are integers and differ, and the snapshot tool was called
C2_Witness ==
    /\ Handled1
    /\ PresentInteger(P1, snapshots_property(RunTier))
    /\ SourceOf(P1, snapshots_property(RunTier)) = Local
    /\ PresentInteger(P1, snapshot_limit_property(RunTier))
    /\ IntegerOf(P1, snapshots_property(RunTier))
          # IntegerOf(P1, snapshot_limit_property(RunTier))
    /\ Len(TierSnapshotCalls(Fs1)) = 1

\* ------------------------------------------------------------------------
\* C3
\* ------------------------------------------------------------------------

\* replicate() was entered for the first filesystem
ReplicationAttempted == ReplicationCalls(Fs1) # <<>>

\* the snapshot call of the first filesystem failed, so that the run ended there
SnapshotFailed == \E i \in 1..Len(TierSnapshotCalls(Fs1)) : Failed(TierSnapshotCalls(Fs1)[i])

\* C3 as claimed: replication is attempted if and only if replicate and
\* replica are both present with a value and provenance local; the value
\* of replicate does not matter.
C3_AsClaimed ==
    (Handled1 /\ ~SnapshotFailed)
    => (ReplicationAttempted
        <=> (PresentLocal(P1, REPLICATE_PROPERTY) /\ PresentLocal(P1, REPLICA_PROPERTY)))

\* C3, amended: replication is attempted if and only if replicate is present
\* with provenance local and its value is the tier being backed up, and
\* replica is present with a value and provenance local.
C3_ReplicateIffTierAndLocal ==
    (Handled1 /\ ~SnapshotFailed)
    => (ReplicationAttempted
        <=> (/\ PresentLocal(P1, REPLICATE_PROPERTY)
             /\ DictGet(P1, REPLICATE_PROPERTY)[1] = RunTier
             /\ PresentLocal(P1, REPLICA_PROPERTY)))

\* zreplicate was called for the first filesystem
C3_Witness ==
    /\ Handled1
    /\ \E i \in 1..Len(calls) : IsReplicateCall(calls[i]) /\ CmdFilesystem(calls[i].cmd) = Fs1

\* ------------------------------------------------------------------------
\* C4
\* ------------------------------------------------------------------------

\* C4: when replication is attempted and no command fails, the replication
\* tool is invoked once per token of the comma-separated replica value, the
\* i-th invocation with the i-th token as its destination.
C4_OneInvocationPerTarget ==
    LET targets == Split(DictGet(P1, REPLICA_PROPERTY)[1], ",")
        invocations == SelectSeq(ToolCalls(Fs1), IsReplicateCall)
    IN  (Handled1 /\ exc = None /\ ReplicationAttempted)
        => /\ Len(invocations) = Len(targets)
           /\ \A i \in 1..Len(invocations) : CmdDestination(invocations[i].cmd) = targets[i]

\* ------------------------------------------------------------------------
\* C5
\* ------------------------------------------------------------------------

\* C5: with --delete-tiers, every invocation of the replication tool on a
\* filesystem comes right after a prune call (snapshot tool, no new snapshot,
\* retain count 0) for each of the named tiers on that filesystem, each of
\* which has ended with success.
C5_PruneBeforeReplicate ==
    options.delete_tiers # None =>
        LET tiers == Split(options.delete_tiers[1], ",")
            n == Len(tiers)
        IN  \A q \in 1..Len(calls) :
               IsReplicateCall(calls[q]) =>
                  /\ q > n
                  /\ \A j \in 1..n :
                        /\ IsPruneCall(calls[q - n + j - 1], tiers[j],
                                       CmdFilesystem(calls[q].cmd))
                        /\ calls[q - n + j - 1].rc = Some(0)

\* two tiers are named and the replication tool has been invoked twice
C5_Witness ==
    /\ options.delete_tiers = Some(<<"m", ",", "y">>)
    /\ Len(SelectSeq(calls, IsReplicateCall)) = 2

\* ------------------------------------------------------------------------
\* C7
\* ------------------------------------------------------------------------

TierCountProperties == {snapshots_property(RunTier), snapshot_limit_property(RunTier)}

\* present, and not a value int() accepts
NotInteger(p, name) == DictHas(p, name) /\ ParseInt(DictGet(p, name)[1]) = None

\* the warning about a property of a filesystem was written
Warned(name, filesystem) ==
    \E i \in 1..Len(err) :
        /\ err[i].fmt = "badly formed %s=%s property for %s (should be integer)"
        /\ err[i].args[1] = name
        /\ err[i].args[3] = filesystem

\* the properties without the counts that are not integers (none apart)
WithoutMalformed(p) ==
    SelectSeq(p, LAMBDA item : ~(/\ item.key \in TierCountProperties
                                 /\ item.val[1] # NONE_VALUE
                                 /\ ParseInt(item.val[1]) = None))

\* the calls made for the first filesystem are calls that the properties p ask for
CallsAsFor(p) ==
    LET cmds == backup_or_reap_snapshots(RunTier, Fs1, p, options).cmds
    IN  \E k \in 0..Len(cmds) : ToolCalls(Fs1) = RunCalls(cmds, k)

\* C7 as claimed: a <tier>-snapshots or <tier>-snapshot-limit value that is
\* present and not integer-parseable is reported by a warning that names the
\* filesystem and the property.
C7_AsClaimed ==
    Handled1 =>
       \A name \in TierCountProperties : NotInteger(P1, name) => Warned(name, Fs1)

\* C7, amended: a <tier>-snapshots or <tier>-snapshot-limit value that is
\* present, is not the literal none and is not integer-parseable never aborts
\* the run: a warning naming the filesystem and the property is written (and
\* only then), the commands run are those run with the property absent, no
\* exception other than a failed command is raised, and when no command fails
\* the next filesystem is processed.
C7_MalformedIsWarnedAndAbsent ==
    Handled1 =>
       /\ \A name \in TierCountProperties :
             Warned(name, Fs1)
             <=> (NotInteger(P1, name) /\ DictGet(P1, name)[1] # NONE_VALUE)
       /\ WithoutMalformed(P1) # P1 =>
             /\ CallsAsFor(WithoutMalformed(P1))
             /\ exc # None => exc[1].type = "CalledProcessError"
             /\ (exc = None /\ pc # "backup") => ToolCalls(Fs2) # <<>>

\* snapshots is malformed and there is no limit: no snapshot tool call for the
\* filesystem, replication has been done and the next filesystem processed
C7_Witness ==
    /\ pc = "exit"
    /\ status = Some(0)
    /\ NotInteger(P1, snapshots_property(RunTier))
    /\ DictGet(P1, snapshots_property(RunTier))[1] # NONE_VALUE
    /\ ~DictHas(P1, snapshot_limit_property(RunTier))
    /\ Warned(snapshots_property(RunTier), Fs1)
    /\ TierSnapshotCalls(Fs1) = <<>>
    /\ ReplicationAttempted
    /\ ToolCalls(Fs2) # <<>>

\* ------------------------------------------------------------------------
\* C6
\* ------------------------------------------------------------------------

\* the report of the exception being raised
FailureReport == Message("zbackup failed with exception: %s", <<exc[1]>>)

\* C6: once a command whose exit status the program collects (the property
\* query, the snapshot tool, the replication tool) has ended with a non-zero
\* status, no further command is started: the failed call stays the last one,
\* its CalledProcessError is raised, and the run ends with the error reported
\* on stderr, one failure email handed over exactly when a recipient is
\* configured, and exit status 1.
C6_FailFast ==
    \A i \in 1..Len(calls) :
        Failed(calls[i]) =>
           /\ i = Len(calls)
           /\ pc \in {"except", "exit"}
           /\ exc = Some(CalledProcessError(calls[i].rc[1], calls[i].cmd))
           /\ pc = "exit" =>
                 /\ status = Some(1)
                 /\ err # <<>> /\ err[Len(err)] = FailureReport
                 /\ (mail # <<>>) <=> (options.email_failure # None)
                 /\ Len(mail) <= 1
                 /\ \A j \in 1..Len(mail) :
                       /\ mail[j].recipient = options.email_failure[1]
                       /\ mail[j].message = FailureReport

\* a backup run ended by the failure of the snapshot tool on the first of two
\* filesystems of the first of two zpools, with the failure email handed over
C6_Witness ==
    /\ ~options.list /\ ~options.set /\ ~options.unset
    /\ pc = "exit"
    /\ calls # <<>>
    /\ Failed(calls[Len(calls)])
    /\ IsSnapshotCall(calls[Len(calls)])
    /\ Len(todo) = 2
    /\ Len(zpools) = 2
    /\ mail # <<>>

\* ------------------------------------------------------------------------
\* C8
\* ------------------------------------------------------------------------

\* a command that can modify a filesystem or a stored property
Modifies(cmd) ==
    \/ cmd[1] \in {ZSNAP, ZREPLICATE}
    \/ cmd[1] = ZFS /\ cmd[2] \in {<<"s", "e", "t">>, <<"i", "n", "h", "e", "r", "i", "t">>}

\* C8: with --dry-run, in every mode, no command that can modify a filesystem
\* or a stored property is run without the dry-run marker (-n).
C8_DryRunNeverExecutes ==
    options.dryrun =>
       \A i \in 1..Len(calls) : Modifies(calls[i].cmd) => Flag("n") \in Range(calls[i].cmd)

\* ------------------------------------------------------------------------
\* C9
\* ------------------------------------------------------------------------

\* C9: whatever lines the store reports, every entry of every property set
\* that get_backup_properties builds has a value other than the unset
\* sentinel "-" and a provenance that is local or received; inherited
\* provenances are dropped.
C9_OnlyKeptEntries ==
    \A i \in 1..Len(properties) :
        \A j \in 1..Len(properties[i].val) :
            /\ properties[i].val[j].val[1] # UNSET
            /\ properties[i].val[j].val[2] \in {Local, Received}

\* two lines were read: the first filesystem is known and the line about it
\* left no entry, the second has an entry
C9_Witness ==
    /\ nlines >= 2
    /\ Len(properties) = 2
    /\ properties[1].val = <<>>
    /\ Len(properties[2].val) = 1

\* ------------------------------------------------------------------------
\* C10
\* ------------------------------------------------------------------------

\* the value of the token name=value of a printed line, or None
TokenValue(line, name) ==
    LET tokens == Split(line, " ")
        hits == SelectSeq(tokens, LAMBDA tok : StartsWith(tok, name \o <<"=">>))
    IN  IF hits = <<>> THEN None ELSE Some(DropFirst(hits[1], Len(name) + 1))

\* the line --list printed for a filesystem
PrintedLine(filesystem) ==
    out[CHOOSE i \in 1..Len(out) : Split(out[i], " ")[1] = filesystem]

\* the retain count backup_or_reap_snapshots uses for a tier on a property set
RetainCount(tier, filesystem, p) ==
    keep_decision(property_int_value_or_none(filesystem, p, snapshots_property(tier)).value,
                  property_int_value_or_none(filesystem, p,
                                             snapshot_limit_property(tier)).value)

NonLocal(p, name) == DictHas(p, name) /\ DictGet(p, name)[2] # Local

\* C10: for a property set in which a tier has no local <tier>-snapshot-limit
\* and has a non-local <tier>-snapshots and/or <tier>-snapshot-limit with
\* integer values, the <tier>-snapshot-limit token that --list prints is the
\* retain count backup_or_reap_snapshots uses for the tier on that set.
C10_ListShowsEffectiveLimit ==
    (options.list /\ pc = "exit" /\ status = Some(0)) =>
       \A i \in 1..Len(properties) :
          LET filesystem == properties[i].key
              p == properties[i].val
              tier == <<"d">>
              counts == {snapshots_property(tier), snapshot_limit_property(tier)}
          IN  (/\ ~(DictHas(p, snapshot_limit_property(tier))
                    /\ DictGet(p, snapshot_limit_property(tier))[2] = Local)
               /\ \E name \in counts : NonLocal(p, name)
               /\ \A name \in counts : NonLocal(p, name) => PresentInteger(p, name))
              => LET shown == TokenValue(PrintedLine(filesystem),
                                         snapshot_limit_property(tier))
                 IN  /\ shown # None
                     /\ ParseInt(shown[1]) = RetainCount(tier, filesystem, p)

====
